---- MODULE Spec2Model ----
(***************************************************************************)
(* Model of worklog_tool: src/tool/validate.py, src/tool/normalize.py and  *)
(* src/tool/build.py.                                                      *)
(*                                                                         *)
(* Text (a Python str) is a sequence of one-character strings.  Characters *)
(* outside ASCII are named by a token: "SUP2" is U+00B2 SUPERSCRIPT TWO    *)
(* (str.isdigit() is True, int() raises ValueError) and "A3" is U+0663     *)
(* ARABIC-INDIC DIGIT THREE (a decimal digit: isdigit() is True and int()  *)
(* gives 3).  Python's None is the value None below.                       *)
(*                                                                         *)
(* A call result is a record with a field exc: "none" when the call        *)
(* returned, otherwise the name of the exception that left it.             *)
(***************************************************************************)
EXTENDS Integers, Sequences, FiniteSets, TLC

VARIABLES file, fieldnames, rows, req_errors, time_errors, norm, run,
          step, accepted, summary

vars ==
    <<file, fieldnames, rows, req_errors, time_errors, norm, run,
      step, accepted, summary>>

-----------------------------------------------------------------------------
(* Python values and str methods                                           *)

None == <<"None">>

\* (x or ""): None and "" both become "".
OrEmpty(x) == IF x = None THEN <<>> ELSE x

AsciiDigits == {"0", "1", "2", "3", "4", "5", "6", "7", "8", "9"}

\* Characters of Unicode category Nd: what int() and strptime's \d accept.
DecimalChars == AsciiDigits \cup {"A3"}

\* Characters for which str.isdigit() is True: Nd and the digit-typed No.
DigitChars == DecimalChars \cup {"SUP2"}

Whitespace == {" "}

DigitValue(c) ==
    CASE c = "0" -> 0 [] c = "1" -> 1 [] c = "2" -> 2 [] c = "3" -> 3
      [] c = "4" -> 4 [] c = "5" -> 5 [] c = "6" -> 6 [] c = "7" -> 7
      [] c = "8" -> 8 [] c = "9" -> 9 [] c = "A3" -> 3 [] OTHER -> 0

RECURSIVE LStrip(_)
LStrip(s) ==
    IF s # <<>> /\ Head(s) \in Whitespace THEN LStrip(Tail(s)) ELSE s

RECURSIVE RStrip(_)
RStrip(s) ==
    IF s # <<>> /\ s[Len(s)] \in Whitespace
    THEN RStrip(SubSeq(s, 1, Len(s) - 1))
    ELSE s

\* str.strip()
Strip(s) == RStrip(LStrip(s))

\* (row.get(c) or "").strip() on a value already fetched
Field(x) == Strip(OrEmpty(x))

\* str.isdigit(): non-empty and every character a digit character.
IsDigit(s) == s # <<>> /\ \A i \in 1..Len(s) : s[i] \in DigitChars

\* int(s) raises ValueError unless s is a non-empty run of decimal digits
\* (the callers pass text for which isdigit() holds: no sign, no blanks).
IntRaises(s) == s = <<>> \/ \E i \in 1..Len(s) : s[i] \notin DecimalChars

RECURSIVE IntValue(_)
IntValue(s) ==
    IF s = <<>> THEN 0
    ELSE 10 * IntValue(SubSeq(s, 1, Len(s) - 1)) + DigitValue(s[Len(s)])

\* len(s.split(sep)): one more than the number of separators.
SplitCount(s, sep) == 1 + Cardinality({i \in 1..Len(s) : s[i] = sep})

\* s.split(sep)[0] and s.split(sep)[1] when the split has exactly 2 parts.
SepAt(s, sep) == CHOOSE i \in 1..Len(s) : s[i] = sep
SplitFirst(s, sep) == SubSeq(s, 1, SepAt(s, sep) - 1)
SplitSecond(s, sep) == SubSeq(s, SepAt(s, sep) + 1, Len(s))

-----------------------------------------------------------------------------
(* validate.py                                                             *)

REQUIRED_COLUMNS == <<"date", "process", "operator">>

ALL_COLUMNS == {"date", "start", "end", "process", "operator", "minutes", "note"}

RowError(row_number, reason, raw) ==
    [row_number |-> row_number, reason |-> reason, raw |-> raw]

\* A list is [py_list |-> items]; a dict is a record keyed by column name.
\* item.get(c): AttributeError on a list, None for a key the dict lacks.
HasGet(item) == "py_list" \notin DOMAIN item
Get(item, c) == IF c \in DOMAIN item THEN item[c] ELSE None

\* A call either returns a value or is left by an exception of type exc whose
\* str() is msg.
Returned(v) == [exc |-> "none", msg |-> "", val |-> v]
Raised(e, m) == [exc |-> e, msg |-> m, val |-> <<>>]

UNPACK_MSG == "too many values to unpack (expected 2)"
INT_MSG == "invalid literal for int() with base 10"
NO_GET_MSG == "'list' object has no attribute 'get'"

\* ','.join(names), kept as the fragments whose concatenation is the text.
RECURSIVE Join(_, _)
Join(names, sep) ==
    IF Len(names) = 0 THEN <<>>
    ELSE IF Len(names) = 1 THEN names
    ELSE <<Head(names), sep>> \o Join(Tail(names), sep)

\* [c for c in cols if pred[c]] : the sub-list, in the order of cols.
RECURSIVE Select(_, _)
Select(cols, keep) ==
    IF cols = <<>> THEN <<>>
    ELSE (IF Head(cols) \in keep THEN <<Head(cols)>> ELSE <<>>)
         \o Select(Tail(cols), keep)

\* The state of the input path, as read_csv_utf8 finds it.
FileStates == {"missing", "not_utf8", "no_header", "ok"}

\* read_csv_utf8: open() raises for a missing path, decoding raises for bytes
\* that are not UTF-8, and a file with no first line has fieldnames None.
\* Otherwise it returns the pair (fieldnames, rows).
read_csv_utf8(f, names, data) ==
    CASE f = "missing" ->
             Raised("FileNotFoundError", "[Errno 2] No such file or directory")
      [] f = "not_utf8" ->
             Raised("UnicodeDecodeError", "'utf-8' codec can't decode byte")
      [] f = "no_header" -> Raised("ValueError", "CSV has no header row.")
      [] OTHER -> Returned(<<names, data>>)

validate_header(names) ==
    LET present == {names[i] : i \in 1..Len(names)}
        missing == Select(REQUIRED_COLUMNS,
                          {c \in ALL_COLUMNS : c \notin present})
    IN  IF missing = <<>> THEN <<>>
        ELSE <<RowError(0,
                        <<"file_error: missing_columns: ">> \o Join(missing, ","),
                        [header |-> names])>>

\* One iteration of validate_required_columns' loop: the reasons it appends.
RequiredRow(i, row) ==
    IF ~HasGet(row) THEN Raised("AttributeError", NO_GET_MSG)
    ELSE LET missing ==
                 Select(REQUIRED_COLUMNS,
                        {c \in ALL_COLUMNS : Field(Get(row, c)) = <<>>})
         IN  IF missing # <<>>
             THEN Returned(<<RowError(i,
                                      <<"missing_required: ">> \o Join(missing, ","),
                                      row)>>)
             ELSE Returned(<<>>)

RECURSIVE RequiredLoop(_, _, _)
RequiredLoop(items, k, errors) ==
    IF k > Len(items) THEN Returned(errors)
    ELSE LET o == RequiredRow(k + 1, items[k])
         IN  IF o.exc # "none" THEN Raised(o.exc, o.msg)
             ELSE RequiredLoop(items, k + 1, errors \o o.val)

validate_required_columns(items) == RequiredLoop(items, 1, <<>>)

\* is_hhmm: returns a bool, or is left by the ValueError of the two-name
\* unpack of s.split(":") or of int().
is_hhmm(x) ==
    LET s == Field(x)
    IN  IF Len(s) # 5 \/ s[3] # ":" THEN Returned(FALSE)
        ELSE IF SplitCount(s, ":") # 2 THEN Raised("ValueError", UNPACK_MSG)
        ELSE LET hh == SplitFirst(s, ":")
                 mm == SplitSecond(s, ":")
             IN  IF ~(IsDigit(hh) /\ IsDigit(mm)) THEN Returned(FALSE)
                 ELSE IF IntRaises(hh) \/ IntRaises(mm)
                 THEN Raised("ValueError", INT_MSG)
                 ELSE Returned(0 <= IntValue(hh) /\ IntValue(hh) <= 23
                               /\ 0 <= IntValue(mm) /\ IntValue(mm) <= 59)

MINUTES_NOT_INT == <<"minutes_invalid: not an integer">>
MINUTES_NOT_POSITIVE == <<"minutes_invalid: must be integer > 0">>
TIME_INCOMPLETE == <<"time_incomplete: need both start and end">>
START_INVALID == <<"start_invalid: expected HH:MM">>
END_INVALID == <<"end_invalid: expected HH:MM">>
TIME_MISSING == <<"time_missing: provide start+end OR minutes">>
TIME_ORDER_INVALID == <<"time_order_invalid: end must be after start">>
DATE_INVALID == <<"date_invalid: expected YYYY-MM-DD">>

\* One iteration of validate_time_rules' loop: the reasons it appends.
TimeRulesRow(i, row) ==
    IF ~HasGet(row) THEN Raised("AttributeError", NO_GET_MSG)
    ELSE
    LET start == Field(Get(row, "start"))
        end == Field(Get(row, "end"))
        minutes_raw == Field(Get(row, "minutes"))
        has_start == start # <<>>
        has_end == end # <<>>
    IN  IF minutes_raw # <<>>
        THEN IF ~IsDigit(minutes_raw)
             THEN Returned(<<RowError(i, MINUTES_NOT_INT, row)>>)
             ELSE IF IntRaises(minutes_raw) THEN Raised("ValueError", INT_MSG)
             ELSE IF IntValue(minutes_raw) <= 0
             THEN Returned(<<RowError(i, MINUTES_NOT_POSITIVE, row)>>)
             ELSE Returned(<<>>)
        ELSE IF has_start \/ has_end
        THEN IF ~(has_start /\ has_end)
             THEN Returned(<<RowError(i, TIME_INCOMPLETE, row)>>)
             ELSE IF is_hhmm(start).exc # "none"
             THEN Raised(is_hhmm(start).exc, is_hhmm(start).msg)
             ELSE IF ~is_hhmm(start).val
             THEN Returned(<<RowError(i, START_INVALID, row)>>)
             ELSE IF is_hhmm(end).exc # "none"
             THEN Raised(is_hhmm(end).exc, is_hhmm(end).msg)
             ELSE IF ~is_hhmm(end).val
             THEN Returned(<<RowError(i, END_INVALID, row)>>)
             ELSE Returned(<<>>)
        ELSE Returned(<<RowError(i, TIME_MISSING, row)>>)

RECURSIVE TimeRulesLoop(_, _, _)
TimeRulesLoop(items, k, errors) ==
    IF k > Len(items) THEN Returned(errors)
    ELSE LET o == TimeRulesRow(k + 1, items[k])
         IN  IF o.exc # "none" THEN Raised(o.exc, o.msg)
             ELSE TimeRulesLoop(items, k + 1, errors \o o.val)

validate_time_rules(items) == TimeRulesLoop(items, 1, <<>>)

\* What one call of run_validate or run_build leaves behind: the exception
\* that left it ("none": it returned), the status it returned (<<>> when it
\* raised, else <<status>>), the files it wrote and the rows of errors.csv.
Outcome(cmd, exc, status, written, report) ==
    [cmd |-> cmd, exc |-> exc, status |-> status, written |-> written,
     report |-> report]

run_validate(f, names, data) ==
    LET rd == read_csv_utf8(f, names, data)
        file_error(r) ==
            Outcome("validate", "none", <<2>>, {"errors.csv"},
                    <<RowError(0, <<"file_error: ", r.exc, ": ", r.msg>>,
                               [input |-> f])>>)
    IN  IF rd.exc # "none" THEN file_error(rd)
        ELSE
        LET header_errors == validate_header(rd.val[1])
            e1 == validate_required_columns(rd.val[2])
            e2 == validate_time_rules(rd.val[2])
        IN  IF header_errors # <<>>
            THEN Outcome("validate", "none", <<2>>, {"errors.csv"},
                         header_errors)
            ELSE IF e1.exc # "none" THEN file_error(e1)
            ELSE IF e2.exc # "none" THEN file_error(e2)
            ELSE LET errors == e1.val \o e2.val
                 IN  Outcome("validate", "none",
                             IF errors # <<>> THEN <<2>> ELSE <<0>>,
                             {"errors.csv"}, errors)

-----------------------------------------------------------------------------
(* normalize.py                                                            *)

NormalizedRow(date, process, operator, minutes, note) ==
    [date |-> date, process |-> process, operator |-> operator,
     minutes |-> minutes, note |-> note]

\* s.split(sep)
RECURSIVE Split(_, _)
Split(s, sep) ==
    IF \A i \in 1..Len(s) : s[i] # sep THEN <<s>>
    ELSE <<SplitFirst(s, sep)>> \o Split(SplitSecond(s, sep), sep)

IsLeap(y) == (y % 4 = 0 /\ y % 100 # 0) \/ y % 400 = 0

DaysInMonth(y, m) ==
    IF m = 2 THEN (IF IsLeap(y) THEN 29 ELSE 28)
    ELSE IF m \in {4, 6, 9, 11} THEN 30 ELSE 31

\* The directives of datetime.strptime(s, "%Y-%m-%d"):
\*   %Y  \d\d\d\d    %m  1[0-2]|0[1-9]|[1-9]
\*   %d  3[01]|[12]\d|0[1-9]|[1-9]| [1-9]
NonZeroAscii == AsciiDigits \ {"0"}
MatchesYear(t) == Len(t) = 4 /\ \A i \in 1..4 : t[i] \in DecimalChars
MatchesMonth(t) ==
    \/ Len(t) = 1 /\ t[1] \in NonZeroAscii
    \/ Len(t) = 2 /\ t[1] = "1" /\ t[2] \in {"0", "1", "2"}
    \/ Len(t) = 2 /\ t[1] = "0" /\ t[2] \in NonZeroAscii
MatchesDay(t) ==
    \/ Len(t) = 1 /\ t[1] \in NonZeroAscii
    \/ Len(t) = 2 /\ t[1] = "3" /\ t[2] \in {"0", "1"}
    \/ Len(t) = 2 /\ t[1] \in {"1", "2"} /\ t[2] \in DecimalChars
    \/ Len(t) = 2 /\ t[1] \in {"0", " "} /\ t[2] \in NonZeroAscii

\* _parse_date_yyyy_mm_dd: strptime's ValueError (no match, year 0, a day the
\* month does not have) is caught and gives False.
parse_date_yyyy_mm_dd(x) ==
    LET s == Field(x)
        parts == Split(s, "-")
    IN  /\ Len(parts) = 3
        /\ MatchesYear(parts[1])
        /\ MatchesMonth(parts[2])
        /\ MatchesDay(parts[3])
        /\ IntValue(parts[1]) >= 1
        /\ IntValue(LStrip(parts[3]))
               <= DaysInMonth(IntValue(parts[1]), IntValue(parts[2]))

\* _parse_minutes: None is <<>>, an int n is <<n>>; -1 means "not an integer".
parse_minutes(x) ==
    LET s == Field(x)
    IN  IF s = <<>> THEN Returned(<<>>)
        ELSE IF ~IsDigit(s) THEN Returned(<<-1>>)
        ELSE IF IntRaises(s) THEN Raised("ValueError", INT_MSG)
        ELSE Returned(<<IntValue(s)>>)

\* Mutant of parse_hhmm_to_minutes: the hour test is h < 23, so 23:xx is None.
parse_hhmm_to_minutes_hour_off_by_one(x) ==
    LET s == Field(x)
    IN  IF Len(s) # 5 \/ s[3] # ":" THEN Returned(<<>>)
        ELSE IF SplitCount(s, ":") # 2 THEN Raised("ValueError", UNPACK_MSG)
        ELSE LET hh == SplitFirst(s, ":")
                 mm == SplitSecond(s, ":")
             IN  IF ~(IsDigit(hh) /\ IsDigit(mm)) THEN Returned(<<>>)
                 ELSE IF IntRaises(hh) \/ IntRaises(mm)
                 THEN Raised("ValueError", INT_MSG)
                 ELSE IF ~(0 <= IntValue(hh) /\ IntValue(hh) < 23
                           /\ 0 <= IntValue(mm) /\ IntValue(mm) <= 59)
                 THEN Returned(<<>>)
                 ELSE Returned(<<IntValue(hh) * 60 + IntValue(mm)>>)

\* _parse_hhmm_to_minutes: None is <<>>, an int n is <<n>>.
parse_hhmm_to_minutes(x) ==
    LET s == Field(x)
    IN  IF Len(s) # 5 \/ s[3] # ":" THEN Returned(<<>>)
        ELSE IF SplitCount(s, ":") # 2 THEN Raised("ValueError", UNPACK_MSG)
        ELSE LET hh == SplitFirst(s, ":")
                 mm == SplitSecond(s, ":")
             IN  IF ~(IsDigit(hh) /\ IsDigit(mm)) THEN Returned(<<>>)
                 ELSE IF IntRaises(hh) \/ IntRaises(mm)
                 THEN Raised("ValueError", INT_MSG)
                 ELSE IF ~(0 <= IntValue(hh) /\ IntValue(hh) <= 23
                           /\ 0 <= IntValue(mm) /\ IntValue(mm) <= 59)
                 THEN Returned(<<>>)
                 ELSE Returned(<<IntValue(hh) * 60 + IntValue(mm)>>)

\* The pair normalize_row returns: rec is <<>> for None, else <<record>>.
Pair(rec, errors) == Returned([rec |-> rec, errors |-> errors])

\* Mutant of Span: the plain difference, with no midnight crossing.
Span_no_wraparound(smin, emin) == emin - smin

\* The span of start/end in normalize_row: end before start crosses midnight.
Span(smin, emin) ==
    IF emin < smin THEN (24 * 60) - smin + emin ELSE emin - smin

\* Mutant of UsesMinutes: minutes is used only when no start or end is given.
UsesMinutes_after_start_end(row) ==
    /\ Field(Get(row, "minutes")) # <<>>
    /\ Field(Get(row, "start")) = <<>>
    /\ Field(Get(row, "end")) = <<>>

\* normalize_row's test for the minutes branch: minutes_raw is not blank and
\* _parse_minutes does not give None for it.
UsesMinutes(row) ==
    LET minutes_raw == Field(Get(row, "minutes"))
        m == parse_minutes(minutes_raw)
    IN  minutes_raw # <<>> /\ (m.exc # "none" \/ m.val # <<>>)

\* normalize_row's minutes branch.
NormalizeMinutes(row_number, row) ==
    LET date == Field(Get(row, "date"))
        process == Field(Get(row, "process"))
        operator == Field(Get(row, "operator"))
        note == Field(Get(row, "note"))
        m == parse_minutes(Field(Get(row, "minutes")))
    IN  IF m.exc # "none" THEN Raised(m.exc, m.msg)
        ELSE IF m.val[1] = -1
        THEN Pair(<<>>, <<RowError(row_number, MINUTES_NOT_INT, row)>>)
        ELSE IF m.val[1] <= 0
        THEN Pair(<<>>, <<RowError(row_number, MINUTES_NOT_POSITIVE, row)>>)
        ELSE Pair(<<NormalizedRow(date, process, operator, m.val[1], note)>>,
                  <<>>)

\* Mutant of StartEndMissing: only a row with neither time is left alone.
StartEndMissing_both(start, end) == start = <<>> /\ end = <<>>

\* normalize_row's test that leaves a row without both times to the validator.
StartEndMissing(start, end) == start = <<>> \/ end = <<>>

\* normalize_row's start/end branch: both times are parsed before either
\* result is looked at.
NormalizeStartEnd(row_number, row) ==
    LET date == Field(Get(row, "date"))
        process == Field(Get(row, "process"))
        operator == Field(Get(row, "operator"))
        note == Field(Get(row, "note"))
        start == Field(Get(row, "start"))
        end == Field(Get(row, "end"))
        smin == parse_hhmm_to_minutes(start)
        emin == parse_hhmm_to_minutes(end)
        diff == Span(smin.val[1], emin.val[1])
    IN  IF StartEndMissing(start, end) THEN Pair(<<>>, <<>>)
        ELSE IF smin.exc # "none" THEN Raised(smin.exc, smin.msg)
        ELSE IF emin.exc # "none" THEN Raised(emin.exc, emin.msg)
        ELSE IF smin.val = <<>>
        THEN Pair(<<>>, <<RowError(row_number, START_INVALID, row)>>)
        ELSE IF emin.val = <<>>
        THEN Pair(<<>>, <<RowError(row_number, END_INVALID, row)>>)
        ELSE IF diff <= 0
        THEN Pair(<<>>, <<RowError(row_number, TIME_ORDER_INVALID, row)>>)
        ELSE Pair(<<NormalizedRow(date, process, operator, diff, note)>>, <<>>)

normalize_row(row_number, row) ==
    IF ~parse_date_yyyy_mm_dd(Field(Get(row, "date")))
    THEN Pair(<<>>, <<RowError(row_number, DATE_INVALID, row)>>)
    ELSE IF UsesMinutes(row) THEN NormalizeMinutes(row_number, row)
    ELSE NormalizeStartEnd(row_number, row)

-----------------------------------------------------------------------------
(* build.py                                                                *)

\* _row_has_error
row_has_error(row_number, errors) ==
    \E j \in 1..Len(errors) : errors[j].row_number = row_number

Acc(errors, normalized) == [errors |-> errors, normalized |-> normalized]

\* One iteration of run_build's per-row loop, from the errors and records
\* accumulated so far to those after it.  build.py carries its own copies of
\* _parse_date_yyyy_mm_dd, _parse_minutes and _parse_hhmm_to_minutes, equal
\* line for line to those of normalize.py.
BuildRow(i, row, acc) ==
    IF row_has_error(i, acc.errors) THEN Returned(acc)
    ELSE IF ~HasGet(row) THEN Raised("AttributeError", NO_GET_MSG)
    ELSE
    LET date == Field(Get(row, "date"))
        process == Field(Get(row, "process"))
        operator == Field(Get(row, "operator"))
        note == Field(Get(row, "note"))
        minutes_raw == Field(Get(row, "minutes"))
        m == parse_minutes(minutes_raw)
        start == Field(Get(row, "start"))
        end == Field(Get(row, "end"))
        smin == parse_hhmm_to_minutes(start)
        emin == parse_hhmm_to_minutes(end)
        diff == emin.val[1] - smin.val[1]
        reject(reason) ==
            Returned(Acc(Append(acc.errors, RowError(i, reason, row)),
                         acc.normalized))
        accept(minutes) ==
            Returned(Acc(acc.errors,
                         Append(acc.normalized,
                                NormalizedRow(date, process, operator,
                                              minutes, note))))
    IN  IF ~parse_date_yyyy_mm_dd(date) THEN reject(DATE_INVALID)
        ELSE IF m.exc # "none" THEN Raised(m.exc, m.msg)
        ELSE IF m.val # <<>> /\ m.val[1] # -1
        THEN (IF m.val[1] <= 0 THEN reject(MINUTES_NOT_POSITIVE)
              ELSE accept(m.val[1]))
        ELSE IF m.val # <<>> /\ m.val[1] = -1 THEN reject(MINUTES_NOT_INT)
        ELSE IF smin.exc # "none" THEN Raised(smin.exc, smin.msg)
        ELSE IF emin.exc # "none" THEN Raised(emin.exc, emin.msg)
        ELSE IF smin.val = <<>> \/ emin.val = <<>>
        THEN reject(<<"time_invalid: expected HH:MM">>)
        ELSE IF diff <= 0 THEN reject(TIME_ORDER_INVALID)
        ELSE accept(diff)

RECURSIVE BuildLoop(_, _, _)
BuildLoop(items, k, acc) ==
    IF k > Len(items) THEN Returned(acc)
    ELSE LET o == BuildRow(k + 1, items[k], acc)
         IN  IF o.exc # "none" THEN Raised(o.exc, o.msg)
             ELSE BuildLoop(items, k + 1, o.val)

BUILD_FILES ==
    {"errors.csv", "summary_daily.csv", "summary_process.csv", "report.html"}

\* run_build binds the pair read_csv_utf8 returns to the one name rows, so the
\* validators and the loop iterate over its two members, both lists.  No
\* exception is caught, and every file is written after the loop.
run_build(f, names, data) ==
    LET rd == read_csv_utf8(f, names, data)
        crash(r) == Outcome("build", r.exc, <<>>, {}, <<>>)
    IN  IF rd.exc # "none" THEN crash(rd)
        ELSE
        LET items == <<[py_list |-> rd.val[1]], [py_list |-> rd.val[2]]>>
            e1 == validate_required_columns(items)
            e2 == validate_time_rules(items)
            lp == BuildLoop(items, 1, Acc(e1.val \o e2.val, <<>>))
        IN  IF e1.exc # "none" THEN crash(e1)
            ELSE IF e2.exc # "none" THEN crash(e2)
            ELSE IF lp.exc # "none" THEN crash(lp)
            ELSE Outcome("build", "none",
                         IF lp.val.errors # <<>> THEN <<2>> ELSE <<0>>,
                         BUILD_FILES, lp.val.errors)

\* ord(c) of the characters texts are made of.
CodePoint(c) ==
    CASE c = " " -> 32 [] c = "-" -> 45 [] c = "/" -> 47
      [] c \in AsciiDigits -> 48 + DigitValue(c)
      [] c = ":" -> 58 [] c = "A" -> 65
      [] c = "a" -> 97 [] c = "b" -> 98 [] c = "c" -> 99 [] c = "n" -> 110
      [] c = "p" -> 112 [] c = "q" -> 113 [] c = "x" -> 120 [] c = "y" -> 121
      [] c = "SUP2" -> 178 [] c = "A3" -> 1635

\* a < b on str: by code point at the first difference, a proper prefix first.
TextLess(a, b) ==
    \E i \in 1..(Len(a) + 1) :
        /\ i <= Len(b)
        /\ \A j \in 1..(i - 1) : a[j] = b[j]
        /\ (i > Len(a) \/ CodePoint(a[i]) < CodePoint(b[i]))

RECURSIVE sorted_descending(_)
sorted_descending(keys) ==
    IF keys = {} THEN <<>>
    ELSE LET last == CHOOSE x \in keys :
                         \A y \in keys \ {x} : TextLess(y, x)
         IN  <<last>> \o sorted_descending(keys \ {last})

\* sorted(d.keys()), and the keys of sorted(d.items()): the keys of a dict
\* are distinct, so its (key, value) pairs sort by key alone.
RECURSIVE sorted(_)
sorted(keys) ==
    IF keys = {} THEN <<>>
    ELSE LET first == CHOOSE x \in keys :
                          \A y \in keys \ {x} : TextLess(x, y)
         IN  <<first>> \o sorted(keys \ {first})

\* A dict is a function on its keys; {} is the function on no key.
EmptyDict == <<>>

\* d.get(key, default)
DictGet(d, key, default) == IF key \in DOMAIN d THEN d[key] ELSE default

\* d[key] = value
DictSet(d, key, value) ==
    [x \in DOMAIN d \cup {key} |-> IF x = key THEN value ELSE d[x]]

\* max(a, b)
Max(a, b) == IF b > a THEN b ELSE a

\* The accumulation loop of _export_summary_daily from item k on.
RECURSIVE DailyLoop(_, _, _)
DailyLoop(items, k, d) ==
    IF k > Len(items) THEN d
    ELSE
    LET r == items[k]
        pm == DictGet(d.daily_process, r.date, EmptyDict)
    IN  DailyLoop(items, k + 1,
            [daily |->
                 DictSet(d.daily, r.date,
                         DictGet(d.daily, r.date, 0) + r.minutes),
             daily_count |->
                 DictSet(d.daily_count, r.date,
                         DictGet(d.daily_count, r.date, 0) + 1),
             daily_process |->
                 DictSet(d.daily_process, r.date,
                         DictSet(pm, r.process,
                                 DictGet(pm, r.process, 0) + r.minutes))])

\* _export_summary_daily: the lines of summary_daily.csv.  process_breakdown
\* is the list of "p=m" pieces that ";" joins, each piece as its p and m.
export_summary_daily(items) ==
    LET d == DailyLoop(items, 1, [daily |-> EmptyDict,
                                  daily_count |-> EmptyDict,
                                  daily_process |-> EmptyDict])
        dates == sorted(DOMAIN d.daily)
        breakdown(date) ==
            LET ps == sorted(DOMAIN d.daily_process[date])
            IN  [i \in 1..Len(ps) |->
                    [process |-> ps[i],
                     minutes |-> d.daily_process[date][ps[i]]]]
    IN  [header |-> <<"date", "total_minutes", "work_count",
                      "process_breakdown">>,
         lines |-> [j \in 1..Len(dates) |->
                       [date |-> dates[j],
                        total_minutes |-> d.daily[dates[j]],
                        work_count |-> d.daily_count[dates[j]],
                        process_breakdown |-> breakdown(dates[j])]]]

\* The accumulation loop of _export_summary_process from item k on.
RECURSIVE ProcessLoop(_, _, _)
ProcessLoop(items, k, agg) ==
    IF k > Len(items) THEN agg
    ELSE
    LET r == items[k]
        a == DictGet(agg, r.process, [count |-> 0, sum |-> 0, max |-> 0])
    IN  ProcessLoop(items, k + 1,
            DictSet(agg, r.process,
                    [count |-> a.count + 1,
                     sum |-> a.sum + r.minutes,
                     max |-> Max(a.max, r.minutes)]))

\* round(total / count, 2) in hundredths: the nearest hundredth.  The
\* quotient lies half-way between two hundredths only when count is a
\* multiple of 8.
Round2(total, count) == (200 * total + count) \div (2 * count)

\* _export_summary_process: the lines of summary_process.csv, avg_minutes in
\* hundredths.
export_summary_process(items) ==
    LET agg == ProcessLoop(items, 1, EmptyDict)
        ps == sorted(DOMAIN agg)
    IN  [header |-> <<"process", "count", "sum_minutes", "avg_minutes",
                      "max_minutes">>,
         lines |-> [j \in 1..Len(ps) |->
                       LET a == agg[ps[j]]
                       IN  [process |-> ps[j],
                            count |-> a.count,
                            sum_minutes |-> a.sum,
                            avg_minutes |-> IF a.count # 0
                                            THEN Round2(a.sum, a.count)
                                            ELSE 0,
                            max_minutes |-> a.max]]]

\* The two accumulation loops of _export_html from item k on, the one over
\* r.date and the one over r.process: totals and counts by the field key.
RECURSIVE HtmlLoop(_, _, _, _)
HtmlLoop(items, k, key, t) ==
    IF k > Len(items) THEN t
    ELSE LET r == items[k]
         IN  HtmlLoop(items, k + 1, key,
                 [totals |-> DictSet(t.totals, r[key],
                                     DictGet(t.totals, r[key], 0) + r.minutes),
                  counts |-> DictSet(t.counts, r[key],
                                     DictGet(t.counts, r[key], 0) + 1)])

\* _export_html: the count of valid rows and the cells of the two tables of
\* report.html.
export_html(items) ==
    LET none == [totals |-> EmptyDict, counts |-> EmptyDict]
        daily == HtmlLoop(items, 1, "date", none)
        proc == HtmlLoop(items, 1, "process", none)
        ds == sorted(DOMAIN daily.totals)
        ps == sorted(DOMAIN proc.totals)
    IN  [valid_rows |-> Len(items),
         daily |-> [j \in 1..Len(ds) |->
                       <<ds[j], daily.totals[ds[j]], daily.counts[ds[j]]>>],
         process |-> [j \in 1..Len(ps) |->
                         <<ps[j], proc.counts[ps[j]], proc.totals[ps[j]]>>]]

-----------------------------------------------------------------------------
(* Inputs                                                                  *)

Row(date, start, end, process, operator, minutes, note) ==
    [date |-> date, start |-> start, end |-> end, process |-> process,
     operator |-> operator, minutes |-> minutes, note |-> note]

\* Values of the start and end columns: absent, blank, well-formed (with and
\* without surrounding blanks), out of range, misshapen, and the two shapes
\* on which split(":") and int() raise.
TimeTexts ==
    { None, <<>>, <<" ">>,
      <<"0", "9", ":", "0", "0">>, <<"0", "9", ":", "4", "5">>,
      <<"2", "3", ":", "0", "0">>, <<"0", "1", ":", "0", "0">>,
      <<"0", "0", ":", "0", "0">>, <<"2", "3", ":", "5", "9">>,
      <<" ", "0", "9", ":", "4", "0", " ">>,
      <<"2", "4", ":", "0", "0">>, <<"1", "2", ":", "6", "0">>,
      <<"9", ":", "0", "0">>, <<"x", "x", ":", "y", "y">>,
      <<"0", "9", "-", "0", "0">>,
      <<"1", "2", ":", ":", "5">>, <<"1", "SUP2", ":", "0", "0">> }

\* Values of the minutes column.
MinutesTexts ==
    { None, <<>>, <<"3", "0">>, <<" ", "5", " ">>, <<"0">>, <<"0", "0">>,
      <<"-", "1", "0">>, <<"a", "b", "c">>, <<"SUP2">>, <<"A3">> }

GOOD_DATE == <<"2", "0", "2", "6", "-", "0", "2", "-", "1", "3">>
BAD_DATE == <<"2", "0", "2", "6", "-", "0", "2", "-", "3", "0">>

\* Values of the date column.
DateTexts ==
    { None, <<>>, GOOD_DATE, BAD_DATE,
      <<" ", "2", "0", "2", "4", "-", "0", "2", "-", "2", "9", " ">>,
      <<"2", "0", "2", "6", "-", "2", "-", "3">>,
      <<"2", "0", "2", "6", "-", "0", "2", "-", " ", "3">>,
      <<"2", "0", "2", "6", "-", "1", "3", "-", "0", "1">>,
      <<"2", "0", "2", "6", "/", "0", "2", "/", "1", "3">>,
      <<"0", "0", "0", "0", "-", "0", "1", "-", "0", "1">>,
      <<"2", "0", "2", "6", "-", "0", "2", "-", "1", "SUP2">>,
      <<"2", "0", "2", "6", "-", "0", "2">> }

\* Values of the process and operator columns.
NameTexts == { None, <<>>, <<" ">>, <<"A">> }

\* Rows that vary the time specification under a date that parses, and a
\* few of them under one that does not.
TimeRows ==
    { Row(GOOD_DATE, s, e, <<"p">>, <<"A">>, m, <<>>) :
        s \in TimeTexts, e \in TimeTexts, m \in MinutesTexts }
    \cup
    { Row(BAD_DATE, t[1], t[2], <<"p">>, <<"A">>, m, <<>>) :
        t \in { <<<<>>, <<>>>>,
                <<<<"0", "9", ":", "0", "0">>, <<"0", "9", ":", "4", "5">>>>,
                <<<<"x", "x", ":", "y", "y">>, <<"0", "9", ":", "4", "5">>>>,
                <<<<"1", "2", ":", ":", "5">>, <<"0", "9", ":", "4", "5">>>> },
        m \in { <<>>, <<"3", "0">>, <<"a", "b", "c">>, <<"SUP2">> } }

\* Rows that vary the date, in duration mode, interval mode and neither.
DateRows ==
    { Row(d, t, t, <<"p">>, <<"A">>, m, <<"n">>) :
        d \in DateTexts, t \in {<<>>, <<"0", "9", ":", "0", "0">>},
        m \in {<<>>, <<"3", "0">>} }

\* Rows that vary the required columns.
RequiredRows ==
    { Row(d, <<"0", "9", ":", "0", "0">>, e, p, o, <<>>, <<>>) :
        d \in {None, <<" ">>, GOOD_DATE}, p \in NameTexts, o \in NameTexts,
        e \in {<<>>, <<"0", "9", ":", "4", "5">>} }

\* The rows files are made of: duration mode, an overnight interval, equal
\* start and end, a misshapen start, no time fields, a row that lacks a
\* required field and half of its interval, and a start with two colons.
FileRows ==
    { Row(GOOD_DATE, <<>>, <<>>, <<"p">>, <<"A">>, <<"2", "5">>, <<>>),
      Row(GOOD_DATE, <<"2", "3", ":", "0", "0">>, <<"0", "1", ":", "0", "0">>,
          <<"q">>, <<"A">>, <<>>, <<>>),
      Row(GOOD_DATE, <<"x", "x", ":", "y", "y">>, <<"0", "9", ":", "4", "5">>,
          <<"p">>, <<"A">>, <<>>, <<>>),
      Row(GOOD_DATE, <<>>, <<>>, <<"p">>, <<"A">>, <<>>, <<>>),
      Row(GOOD_DATE, <<"0", "9", ":", "0", "0">>, <<>>, <<>>, <<"A">>, <<>>,
          <<>>),
      Row(GOOD_DATE, <<"1", "2", ":", ":", "5">>, <<"0", "9", ":", "4", "5">>,
          <<"p">>, <<"A">>, <<>>, <<>>) }

\* The most data rows of a file made of FileRows.
MaxRows == 2

RECURSIVE ListsOf(_, _)
ListsOf(S, n) ==
    IF n = 0 THEN {<<>>}
    ELSE LET shorter == ListsOf(S, n - 1)
         IN  shorter \cup {Append(l, r) : l \in {x \in shorter : Len(x) = n - 1},
                                          r \in S}

FULL_HEADER ==
    <<"date", "start", "end", "process", "operator", "minutes", "note">>

\* Headers that lack a required column, and an optional one.
ShortHeaders ==
    { <<"date", "start", "end", "process", "minutes", "note">>,
      <<"date", "start", "end", "process", "operator", "note">> }

\* A date strptime accepts without zero padding; as text it sorts after
\* GOOD_DATE, as a day it comes before.
UNPADDED_DATE == <<"2", "0", "2", "6", "-", "2", "-", "3">>

\* The records the summaries are made from: two dates, three categories of
\* which one is a prefix of another, two durations.
Records ==
    { NormalizedRow(d, p, <<"A">>, m, <<>>) :
        d \in {GOOD_DATE, UNPADDED_DATE},
        p \in {<<"p">>, <<"q">>, <<"p", "a">>},
        m \in {30, 45} }

\* The most records of a list the summaries are made from.
MaxItems == 3

\* csv.DictReader keys each row by the header's names.
DictRead(names, data) ==
    [k \in 1..Len(data) |->
        [c \in {names[i] : i \in 1..Len(names)} |-> data[k][c]]]

-----------------------------------------------------------------------------
(* The state machine: the inputs are fixed by Init; each action is one     *)
(* call of a function of the tool on them, and records what it returned.   *)

NotCalled == [exc |-> "not_called", msg |-> "", val |-> <<>>]

NoRun == Outcome("none", "none", <<>>, {}, <<>>)

NoStep == [k |-> 0, out |-> NotCalled]

NoSummary == [daily |-> NotCalled, process |-> NotCalled, html |-> NotCalled]

Init ==
    /\ \/ /\ file = "ok"
          /\ fieldnames = FULL_HEADER
          /\ rows \in {<<r>> : r \in TimeRows \cup DateRows \cup RequiredRows}
                      \cup ListsOf(FileRows, MaxRows)
       \/ /\ file = "ok"
          /\ fieldnames \in ShortHeaders
          /\ rows \in {DictRead(fieldnames, l) : l \in ListsOf(FileRows, MaxRows)}
       \/ /\ file \in FileStates \ {"ok"}
          /\ fieldnames = <<>>
          /\ rows = <<>>
    /\ req_errors = NotCalled
    /\ time_errors = NotCalled
    /\ norm = [k |-> 0, out |-> NotCalled]
    /\ run = NoRun
    /\ step = NoStep
    /\ accepted = <<>>
    /\ summary = NoSummary

ValidateRequiredColumns ==
    /\ file = "ok"
    /\ req_errors' = validate_required_columns(rows)
    /\ UNCHANGED <<file, fieldnames, rows, time_errors, norm, run,
                   step, accepted, summary>>

ValidateTimeRules ==
    /\ file = "ok"
    /\ time_errors' = validate_time_rules(rows)
    /\ UNCHANGED <<file, fieldnames, rows, req_errors, norm, run,
                   step, accepted, summary>>

NormalizeRow(k) ==
    /\ file = "ok"
    /\ norm' = [k |-> k, out |-> normalize_row(k + 1, rows[k])]
    /\ UNCHANGED <<file, fieldnames, rows, req_errors, time_errors, run,
                   step, accepted, summary>>

RunValidate ==
    /\ run' = run_validate(file, fieldnames, rows)
    /\ UNCHANGED <<file, fieldnames, rows, req_errors, time_errors, norm,
                   step, accepted, summary>>

RunBuild ==
    /\ run' = run_build(file, fieldnames, rows)
    /\ UNCHANGED <<file, fieldnames, rows, req_errors, time_errors, norm,
                   step, accepted, summary>>

Next ==
    \/ ValidateRequiredColumns
    \/ ValidateTimeRules
    \/ \E k \in 1..Len(rows) : NormalizeRow(k)
    \/ RunValidate
    \/ RunBuild

Spec == Init /\ [][Next]_vars

\* The body of run_build's per-row loop as a unit: one iteration on row k,
\* entered with the reasons the two validators gave for the rows and no record
\* yet.  It is reached only when both validators returned.
PerRow(k) ==
    LET e1 == validate_required_columns(rows)
        e2 == validate_time_rules(rows)
    IN  /\ file = "ok"
        /\ e1.exc = "none"
        /\ e2.exc = "none"
        /\ step' = [k |-> k,
                    out |-> BuildRow(k + 1, rows[k],
                                     Acc(e1.val \o e2.val, <<>>))]
        /\ UNCHANGED <<file, fieldnames, rows, req_errors, time_errors, norm,
                       run, accepted, summary>>

NextPerRow ==
    \/ \E k \in 1..Len(rows) : NormalizeRow(k)
    \/ \E k \in 1..Len(rows) : PerRow(k)

\* normalize_row and the loop body of run_build, each applied to the rows.
SpecPerRow == Init /\ [][NextPerRow]_vars

\* The exporters as functions of a list of records.
InitExport ==
    /\ file = "ok"
    /\ fieldnames = FULL_HEADER
    /\ rows = <<>>
    /\ req_errors = NotCalled
    /\ time_errors = NotCalled
    /\ norm = [k |-> 0, out |-> NotCalled]
    /\ run = NoRun
    /\ step = NoStep
    /\ accepted \in ListsOf(Records, MaxItems)
    /\ summary = NoSummary

ExportSummaryDaily ==
    /\ summary' = [summary EXCEPT
                       !.daily = Returned(export_summary_daily(accepted))]
    /\ UNCHANGED <<file, fieldnames, rows, req_errors, time_errors, norm, run,
                   step, accepted>>

ExportSummaryProcess ==
    /\ summary' = [summary EXCEPT
                       !.process = Returned(export_summary_process(accepted))]
    /\ UNCHANGED <<file, fieldnames, rows, req_errors, time_errors, norm, run,
                   step, accepted>>

ExportHtml ==
    /\ summary' = [summary EXCEPT !.html = Returned(export_html(accepted))]
    /\ UNCHANGED <<file, fieldnames, rows, req_errors, time_errors, norm, run,
                   step, accepted>>

NextExport ==
    \/ ExportSummaryDaily
    \/ ExportSummaryProcess
    \/ ExportHtml

SpecExport == InitExport /\ [][NextExport]_vars

-----------------------------------------------------------------------------
(* Vocabulary of the properties, defined on the text of a row and not by   *)
(* the tool's parsers.                                                     *)

\* Blank after trimming.
Blank(x) == Field(x) = <<>>

\* The value of a decimal digit, ASCII or not.
DecimalDigit(c) ==
    IF c = "A3" THEN 3 ELSE CHOOSE d \in 0..9 : ToString(d) = c

RECURSIVE DecimalOf(_)
DecimalOf(s) ==
    IF s = <<>> THEN 0
    ELSE 10 * DecimalOf(SubSeq(s, 1, Len(s) - 1)) + DecimalDigit(s[Len(s)])

IsDigits(s) == s # <<>> /\ \A i \in 1..Len(s) : s[i] \in DecimalChars

\* An integer literal: decimal digits, with an optional sign.
IsIntLiteral(x) ==
    LET s == Field(x)
    IN  s # <<>> /\ IsDigits(IF Head(s) \in {"-", "+"} THEN Tail(s) ELSE s)

LiteralValue(x) ==
    LET s == Field(x)
    IN  IF Head(s) = "-" THEN 0 - DecimalOf(Tail(s))
        ELSE IF Head(s) = "+" THEN DecimalOf(Tail(s))
        ELSE DecimalOf(s)

\* A positive integer literal: decimal digits, not all zero.
IsPositiveLiteral(x) == IsDigits(Field(x)) /\ DecimalOf(Field(x)) > 0

\* HH:MM with hours 00-23 and minutes 00-59.
IsClockTime(x) ==
    LET s == Field(x)
    IN  /\ Len(s) = 5
        /\ s[3] = ":"
        /\ {s[1], s[2], s[4], s[5]} \subseteq AsciiDigits
        /\ DecimalOf(SubSeq(s, 1, 2)) <= 23
        /\ DecimalOf(SubSeq(s, 4, 5)) <= 59

\* Minutes since midnight of a clock time.
ClockMinutes(x) ==
    LET s == Field(x)
    IN  60 * DecimalOf(SubSeq(s, 1, 2)) + DecimalOf(SubSeq(s, 4, 5))

\* Text on which str.isdigit() and int() differ, or with a second colon.
HasOddText(x) ==
    LET s == Field(x)
    IN  \/ \E i \in 1..Len(s) : s[i] \in DigitChars \ DecimalChars
        \/ Cardinality({i \in 1..Len(s) : s[i] = ":"}) >= 2

\* The call of normalize_row the state records.
NormCalled == norm.k >= 1
NormReturned == norm.out.exc = "none"
NormRow == rows[norm.k]
NormRec == norm.out.val.rec
NormErrors == norm.out.val.errors
NormReasons == {NormErrors[j].reason : j \in 1..Len(NormErrors)}
NormDateParses == parse_date_yyyy_mm_dd(Get(NormRow, "date"))

\* validate_time_rules returned, with no reason for the k-th row.
ValidatorAccepted(k) ==
    /\ time_errors.exc = "none"
    /\ \A j \in 1..Len(time_errors.val) : time_errors.val[j].row_number # k + 1

ValidatorReasons ==
    {MINUTES_NOT_INT, MINUTES_NOT_POSITIVE, TIME_INCOMPLETE, START_INVALID,
     END_INVALID, TIME_MISSING}

-----------------------------------------------------------------------------
(* C1                                                                      *)

\* C1 as stated: when validate_time_rules gives no reason for a row,
\* normalize_row gives that row no time-specification reason (a reason other
\* than date_invalid) from outside the validator's own set of reasons.
C1_NoReasonOutsideValidatorSet ==
    (NormCalled /\ ValidatorAccepted(norm.k) /\ NormReturned)
        => NormReasons \subseteq ValidatorReasons \cup {DATE_INVALID}

\* C1 as amended: when validate_time_rules gives no reason for a row,
\* normalize_row returns for it and rejects it only with date_invalid or with
\* time_order_invalid: never with a reason of the validator's set, and with
\* time_order_invalid, which the validator does not have, exactly when the
\* date parses, minutes is blank and start and end are the same time of day.
C1_AgreementButForTimeOrder ==
    (NormCalled /\ ValidatorAccepted(norm.k))
        => /\ NormReturned
           /\ NormReasons \subseteq {DATE_INVALID, TIME_ORDER_INVALID}
           /\ (TIME_ORDER_INVALID \in NormReasons
                 <=> /\ NormDateParses
                     /\ Blank(Get(NormRow, "minutes"))
                     /\ IsClockTime(Get(NormRow, "start"))
                     /\ IsClockTime(Get(NormRow, "end"))
                     /\ ClockMinutes(Get(NormRow, "start"))
                            = ClockMinutes(Get(NormRow, "end")))

\* C1 witness: a row the validator accepted and the normalizer rejected with
\* time_order_invalid.
C1_Witness ==
    /\ NormCalled
    /\ ValidatorAccepted(norm.k)
    /\ NormReturned
    /\ NormReasons = {TIME_ORDER_INVALID}

-----------------------------------------------------------------------------
(* C2                                                                      *)

-----------------------------------------------------------------------------
(* C3                                                                      *)

\* C3: for a row whose date parses and whose minutes is a positive integer
\* literal n, normalize_row returns a record with minutes = n and no reason,
\* whatever start and end hold.
C3_DurationPrecedence ==
    (NormCalled /\ NormDateParses /\ IsPositiveLiteral(Get(NormRow, "minutes")))
        => /\ NormReturned
           /\ NormErrors = <<>>
           /\ Len(NormRec) = 1
           /\ NormRec[1].minutes = DecimalOf(Field(Get(NormRow, "minutes")))

\* C3 witness: a record of 30 minutes from a row whose start is no clock time
\* and whose end is one.
C3_Witness ==
    /\ NormCalled
    /\ NormReturned
    /\ IsPositiveLiteral(Get(NormRow, "minutes"))
    /\ ~Blank(Get(NormRow, "start"))
    /\ ~IsClockTime(Get(NormRow, "start"))
    /\ IsClockTime(Get(NormRow, "end"))
    /\ Len(NormRec) = 1
    /\ NormRec[1].minutes = 30

-----------------------------------------------------------------------------
(* C4                                                                      *)

\* C4: for a row with a date that parses, blank minutes and start and end
\* both clock times s and e (minutes since midnight), normalize_row returns a
\* record of e - s minutes when e > s, a record of (1440 - s) + e minutes when
\* e < s, and no record with the single reason time_order_invalid when e = s.
C4_IntervalArithmetic ==
    (/\ NormCalled
     /\ NormDateParses
     /\ Blank(Get(NormRow, "minutes"))
     /\ IsClockTime(Get(NormRow, "start"))
     /\ IsClockTime(Get(NormRow, "end")))
        => LET s == ClockMinutes(Get(NormRow, "start"))
               e == ClockMinutes(Get(NormRow, "end"))
           IN  /\ NormReturned
               /\ e > s => /\ NormErrors = <<>>
                           /\ Len(NormRec) = 1
                           /\ NormRec[1].minutes = e - s
               /\ e < s => /\ NormErrors = <<>>
                           /\ Len(NormRec) = 1
                           /\ NormRec[1].minutes = (24 * 60 - s) + e
               /\ e = s => /\ NormRec = <<>>
                           /\ Len(NormErrors) = 1
                           /\ NormErrors[1].reason = TIME_ORDER_INVALID
                           /\ NormErrors[1].row_number = norm.k + 1

\* C4 witness: a record for an interval that crosses midnight.
C4_Witness ==
    /\ NormCalled
    /\ NormReturned
    /\ Blank(Get(NormRow, "minutes"))
    /\ IsClockTime(Get(NormRow, "start"))
    /\ IsClockTime(Get(NormRow, "end"))
    /\ ClockMinutes(Get(NormRow, "end")) < ClockMinutes(Get(NormRow, "start"))
    /\ Len(NormRec) = 1
    /\ NormRec[1].minutes = 120

-----------------------------------------------------------------------------
(* C5                                                                      *)

\* C5: every record normalize_row returns has minutes > 0, within 1..1439
\* when it comes from start and end; and a row whose duration is not positive
\* or cannot be parsed (minutes that is no positive integer literal; with
\* blank minutes, a start or end that is no clock time, or start equal to
\* end) gets a reason and no record.  (run_build constructs no record at
\* all: see C10.)
C5_PositiveDurationOrReason ==
    NormCalled
        => /\ (NormReturned /\ NormRec # <<>>)
                => /\ NormRec[1].minutes > 0
                   /\ Blank(Get(NormRow, "minutes"))
                         => NormRec[1].minutes \in 1..(24 * 60 - 1)
           /\ (/\ NormDateParses
               /\ \/ /\ ~Blank(Get(NormRow, "minutes"))
                     /\ ~IsPositiveLiteral(Get(NormRow, "minutes"))
                  \/ /\ Blank(Get(NormRow, "minutes"))
                     /\ ~Blank(Get(NormRow, "start"))
                     /\ ~Blank(Get(NormRow, "end"))
                     /\ ~(/\ IsClockTime(Get(NormRow, "start"))
                          /\ IsClockTime(Get(NormRow, "end"))
                          /\ ClockMinutes(Get(NormRow, "start"))
                                 # ClockMinutes(Get(NormRow, "end"))))
                => /\ NormReturned
                   /\ NormRec = <<>>
                   /\ NormErrors # <<>>

-----------------------------------------------------------------------------
(* C6                                                                      *)

\* The reasons validate_time_rules returned for the k-th row.
TimeReasonsOf(k) ==
    LET is_k(e) == e.row_number = k + 1
        es == SelectSeq(time_errors.val, is_k)
    IN  [j \in 1..Len(es) |-> es[j].reason]

\* The decision table of C6 for one row and the reasons given for it.
DecisionTable(row, reasons) ==
    LET minutes == Get(row, "minutes")
        start == Get(row, "start")
        end == Get(row, "end")
    IN  IF ~Blank(minutes)
        THEN IF IsPositiveLiteral(minutes) THEN reasons = <<>>
             ELSE reasons \in {<<MINUTES_NOT_INT>>, <<MINUTES_NOT_POSITIVE>>}
        ELSE IF Blank(start) /\ Blank(end) THEN reasons = <<TIME_MISSING>>
        ELSE IF Blank(start) \/ Blank(end) THEN reasons = <<TIME_INCOMPLETE>>
        ELSE IF ~IsClockTime(start) THEN reasons = <<START_INVALID>>
        ELSE IF ~IsClockTime(end) THEN reasons = <<END_INVALID>>
        ELSE reasons = <<>>

\* C6: validate_time_rules gives every row at most one reason, the one its
\* decision table names (minutes first, then an incomplete pair, then a start
\* and an end that are no clock times, then nothing given at all), under the
\* row number position + 2.
C6_DecisionTable ==
    time_errors.exc # "not_called"
        => /\ time_errors.exc = "none"
           /\ \A j \in 1..Len(time_errors.val) :
                  time_errors.val[j].row_number \in 2..(Len(rows) + 1)
           /\ \A k \in 1..Len(rows) : DecisionTable(rows[k], TimeReasonsOf(k))

-----------------------------------------------------------------------------
(* C7                                                                      *)

\* The reason C7 names for the minutes text of a row, among the reasons given.
MinutesReasonRule(row, reasons) ==
    LET minutes == Get(row, "minutes")
    IN  /\ (~Blank(minutes) /\ IsIntLiteral(minutes) /\ LiteralValue(minutes) <= 0)
              => reasons = {MINUTES_NOT_POSITIVE}
        /\ MINUTES_NOT_INT \in reasons => ~IsIntLiteral(minutes)

\* C7: where validate_time_rules and normalize_row return, minutes that is an
\* integer literal <= 0 (zero, or negative such as -10) has the reason
\* 'minutes_invalid: must be integer > 0', and 'minutes_invalid: not an
\* integer' is given only to minutes that is no integer literal.
C7_NonPositiveMinutesReason ==
    /\ time_errors.exc = "none"
          => \A k \in 1..Len(rows) :
                 MinutesReasonRule(rows[k],
                     {TimeReasonsOf(k)[j] : j \in 1..Len(TimeReasonsOf(k))})
    /\ (NormCalled /\ NormReturned /\ NormDateParses)
          => MinutesReasonRule(NormRow, NormReasons)

-----------------------------------------------------------------------------
(* C8                                                                      *)

\* C8: validate_required_columns and validate_time_rules return for every
\* list of rows, and a validate run of a file with a full header reports
\* nothing under row 0.
C8_ValidatorNeverRaises ==
    /\ req_errors.exc \in {"not_called", "none"}
    /\ time_errors.exc \in {"not_called", "none"}
    /\ (run.cmd = "validate" /\ file = "ok" /\ validate_header(fieldnames) = <<>>)
          => \A j \in 1..Len(run.report) : run.report[j].row_number >= 2

-----------------------------------------------------------------------------
(* C9                                                                      *)

\* C9: a run of either command on an input that cannot be read or has no
\* header row returns 2, raises nothing, and writes a rejection report of
\* exactly one entry, of row 0, whose reason starts with file_error.
C9_FileErrorsStructured ==
    (run.cmd # "none" /\ file # "ok")
        => /\ run.exc = "none"
           /\ run.status = <<2>>
           /\ "errors.csv" \in run.written
           /\ Len(run.report) = 1
           /\ run.report[1].row_number = 0
           /\ run.report[1].reason[1] = "file_error: "

-----------------------------------------------------------------------------
(* C10                                                                     *)

\* C10: run_build on a readable input with a header row returns, having
\* written errors.csv, summary_daily.csv, summary_process.csv and
\* report.html, with 0 when the reasons are none and 2 otherwise.
C10_BuildCompletes ==
    (run.cmd = "build" /\ file = "ok")
        => /\ run.exc = "none"
           /\ run.written = BUILD_FILES
           /\ run.status = (IF run.report = <<>> THEN <<0>> ELSE <<2>>)

-----------------------------------------------------------------------------
(* C11                                                                     *)

\* The row numbers of the reasons a run reported, in report order.
ReportRowNumbers == [j \in 1..Len(run.report) |-> run.report[j].row_number]

\* C11: in the reasons a run reports, no data row (row number 2 or more)
\* appears twice; in particular a row the required-field check gave a reason
\* gets no reason from the time rules.
C11_OneReasonPerRow ==
    (run.cmd # "none" /\ run.exc = "none")
        => \A i, j \in 1..Len(run.report) :
              (i # j /\ ReportRowNumbers[i] >= 2)
                  => ReportRowNumbers[i] # ReportRowNumbers[j]

-----------------------------------------------------------------------------
(* C12                                                                     *)

\* The positions of the records of one date, and of one category.
RecordsOn(date) == {i \in 1..Len(accepted) : accepted[i].date = date}
RecordsIn(process) == {i \in 1..Len(accepted) : accepted[i].process = process}

\* The sum of the minutes of the records at the positions I.
RECURSIVE MinutesOf(_)
MinutesOf(I) ==
    IF I = {} THEN 0
    ELSE LET i == CHOOSE x \in I : TRUE
         IN  accepted[i].minutes + MinutesOf(I \ {i})

\* The largest of the minutes of the records at the positions I.
LongestOf(I) ==
    CHOOSE m \in {accepted[i].minutes : i \in I} :
        \A i \in I : accepted[i].minutes <= m

RECURSIVE SeqSum(_)
SeqSum(q) == IF q = <<>> THEN 0 ELSE Head(q) + SeqSum(Tail(q))

\* A sequence of texts in strictly ascending order.
Ascending(q) == \A j \in 1..(Len(q) - 1) : TextLess(q[j], q[j + 1])

\* accepted with its first two records exchanged, and with its first record
\* moved to the end.  Every order of a list is reached from it by these two
\* steps, and the lists the summaries are made from come in every order.
Reorderings ==
    LET n == Len(accepted)
    IN  IF n < 2 THEN {accepted}
        ELSE {<<accepted[2], accepted[1]>> \o SubSeq(accepted, 3, n),
              Tail(accepted) \o <<Head(accepted)>>}

DailyLines == summary.daily.val.lines
ProcessLines == summary.process.val.lines

DailyIsExact ==
    /\ {DailyLines[j].date : j \in 1..Len(DailyLines)}
           = {accepted[i].date : i \in 1..Len(accepted)}
    /\ Ascending([j \in 1..Len(DailyLines) |-> DailyLines[j].date])
    /\ \A j \in 1..Len(DailyLines) :
          LET l == DailyLines[j]
              b == l.process_breakdown
          IN  /\ l.total_minutes = MinutesOf(RecordsOn(l.date))
              /\ l.work_count = Cardinality(RecordsOn(l.date))
              /\ {b[i].process : i \in 1..Len(b)}
                     = {accepted[i].process : i \in RecordsOn(l.date)}
              /\ Ascending([i \in 1..Len(b) |-> b[i].process])
              /\ \A i \in 1..Len(b) :
                    b[i].minutes
                        = MinutesOf(RecordsOn(l.date)
                                        \cap RecordsIn(b[i].process))
              /\ SeqSum([i \in 1..Len(b) |-> b[i].minutes]) = l.total_minutes
    /\ SeqSum([j \in 1..Len(DailyLines) |-> DailyLines[j].total_minutes])
           = MinutesOf(1..Len(accepted))
    /\ \A other \in Reorderings :
          export_summary_daily(other).lines = DailyLines

ProcessIsExact ==
    /\ {ProcessLines[j].process : j \in 1..Len(ProcessLines)}
           = {accepted[i].process : i \in 1..Len(accepted)}
    /\ Ascending([j \in 1..Len(ProcessLines) |-> ProcessLines[j].process])
    /\ \A j \in 1..Len(ProcessLines) :
          LET l == ProcessLines[j]
          IN  /\ l.count = Cardinality(RecordsIn(l.process))
              /\ l.sum_minutes = MinutesOf(RecordsIn(l.process))
              /\ l.max_minutes = LongestOf(RecordsIn(l.process))
    /\ SeqSum([j \in 1..Len(ProcessLines) |-> ProcessLines[j].sum_minutes])
           = MinutesOf(1..Len(accepted))
    /\ \A other \in Reorderings :
          export_summary_process(other).lines = ProcessLines

\* C12: the daily summary has one line per distinct date, in ascending
\* order of the dates as text, with the sum and the number of that date's
\* records and a breakdown with one entry per category of that date, in
\* ascending order, whose values are that category's sums and add up to the
\* total; the category summary has one line per distinct category, in
\* ascending order, with the number, the sum and the largest of that
\* category's minutes; the daily totals and the category sums both add up to
\* the minutes of all records; and neither summary depends on the order of
\* the records.
C12_AggregationIsExactFold ==
    /\ summary.daily.exc = "none" => DailyIsExact
    /\ summary.process.exc = "none" => ProcessIsExact
    /\ (summary.daily.exc = "none" /\ summary.process.exc = "none")
          => SeqSum([j \in 1..Len(DailyLines) |-> DailyLines[j].total_minutes])
                 = SeqSum([j \in 1..Len(ProcessLines) |->
                              ProcessLines[j].sum_minutes])

\* Both summaries made from records given with a later date first, a later
\* category first within one date, and two durations in one category.
C12_Witness ==
    /\ summary.daily.exc = "none"
    /\ summary.process.exc = "none"
    /\ \E i, j \in 1..Len(accepted) :
          i < j /\ TextLess(accepted[j].date, accepted[i].date)
    /\ \E i, j \in 1..Len(accepted) :
          /\ i < j
          /\ accepted[i].date = accepted[j].date
          /\ TextLess(accepted[j].process, accepted[i].process)
    /\ \E i, j \in 1..Len(accepted) :
          /\ accepted[i].process = accepted[j].process
          /\ accepted[i].minutes # accepted[j].minutes

-----------------------------------------------------------------------------
(* C13                                                                     *)

\* The reasons the two validators give for the rows: what the loop of
\* run_build is entered with.
StructuralReasons ==
    validate_required_columns(rows).val \o validate_time_rules(rows).val

StepCalled == step.k >= 1

\* The reasons the loop body added to those it was entered with.
StepAdded ==
    SubSeq(step.out.val.errors, Len(StructuralReasons) + 1,
           Len(step.out.val.errors))

\* C13: on a row without a structural reason the loop body of run_build ends
\* as normalize_row does on that row: it adds the record normalize_row
\* returns, with the same minutes, or the reason normalize_row returns.
C13_BuildAppliesNormalizer ==
    (/\ StepCalled
     /\ NormCalled
     /\ norm.k = step.k
     /\ ~row_has_error(step.k + 1, StructuralReasons))
        => /\ step.out.exc = norm.out.exc
           /\ step.out.exc = "none"
                 => /\ step.out.val.normalized = NormRec
                    /\ StepAdded = NormErrors

-----------------------------------------------------------------------------
(* C14                                                                     *)

\* C14: the row numbers of the reasons a run reports never decrease along
\* the report, whichever check gave each reason.
C14_ReasonsInRowOrder ==
    (run.cmd # "none" /\ run.exc = "none")
        => \A i, j \in 1..Len(run.report) :
              i < j => ReportRowNumbers[i] <= ReportRowNumbers[j]

-----------------------------------------------------------------------------
(* C15                                                                     *)

\* normalize_row returned neither a record nor a reason.
NormNeither == NormReturned /\ NormRec = <<>> /\ NormErrors = <<>>

\* C15: for a row whose date parses, (a) when normalize_row returns a record
\* validate_time_rules gives the row no reason; (b) when validate_time_rules
\* gives it a minutes_invalid, start_invalid or end_invalid reason,
\* normalize_row returns no record and exactly that one reason; (c) when
\* validate_time_rules gives it time_incomplete or time_missing,
\* normalize_row returns neither a record nor a reason; and for a row
\* validate_time_rules gives no reason, normalize_row does not return
\* neither.
C15_ConverseAgreement ==
    (NormCalled /\ NormDateParses /\ time_errors.exc = "none")
        => LET given == TimeReasonsOf(norm.k)
           IN  /\ (NormReturned /\ NormRec # <<>>) => given = <<>>
               /\ \A j \in 1..Len(given) :
                     given[j] \in {MINUTES_NOT_INT, MINUTES_NOT_POSITIVE,
                                   START_INVALID, END_INVALID}
                         => /\ NormReturned
                            /\ NormRec = <<>>
                            /\ Len(NormErrors) = 1
                            /\ NormErrors[1].reason = given[j]
               /\ \A j \in 1..Len(given) :
                     given[j] \in {TIME_INCOMPLETE, TIME_MISSING}
                         => NormNeither
               /\ (given = <<>> /\ NormReturned) => ~NormNeither

====
